---------------------------- MODULE Spec2Model ----------------------------
(***************************************************************************)
(* Model of the two notebooks of src/notebooks/Raster/raster-mosaic.ipynb: *)
(*   - the raster mosaic pipeline (lines 27-190), cells run top to bottom; *)
(*   - the choropleth mapping pipeline (lines 260-625).                    *)
(* The two notebooks share no state; each has its own specification        *)
(* (SpecRaster, SpecChoro) and leaves the other's variables alone.         *)
(*                                                                         *)
(* Text that the code slices or matches (paths, glob patterns, region      *)
(* codes, colour tokens) is a sequence of one-character strings.  An       *)
(* unbound Python name, or None, is the empty sequence and a bound value v *)
(* is <<v>>.                                                               *)
(***************************************************************************)
EXTENDS Integers, Sequences, FiniteSets

VARIABLES
    \* ---- raster mosaic notebook ----
    disk,                \* the files of the working directory: path -> file
    disk0,               \* history: the disk before the first run
    dirs,                \* the directories that exist
    mergeRounding,       \* how the installed rasterio sizes the mosaic
    pc,                  \* the cell to run next, "done" or "aborted"
    run,                 \* number of the current run of the notebook
    failed,              \* <<cell>> once a cell has raised
    executed,            \* history: the cells run so far in this run
    dem_fps,             \* the list glob.glob returned
    handles,             \* the dataset objects opened so far
    src_files_to_mosaic, \* the list of opened datasets (indices of handles)
    src,                 \* the loop variable src (index of handles, 0 unbound)
    mosaic,              \* <<array>> once merged
    out_trans,           \* <<transform>> once merged
    out_meta,            \* <<metadata>> once copied and updated
    \* ---- choropleth notebook ----
    csv,                 \* the rows of data/seutukunta_tyollisyys_2013.csv
    wfs,                 \* the features the feature service returns
    seriesGetLabelOnly,  \* whether Series.get looks up labels only
    cpc,                 \* the cell to run next, "done" or "aborted"
    data,                \* the attribute table
    geodata,             \* the geometry collection, later the joined dataset
    employed_series,     \* <<series>> once built
    colorscale,          \* <<step colormap>> once built
    maps,                \* the folium.Map instances created so far
    m,                   \* the instance the name m refers to (0 unbound)
    html                 \* <<children>> once the map is saved

varsRaster == <<disk, disk0, dirs, mergeRounding, pc, run, failed, executed,
                dem_fps, handles, src_files_to_mosaic, src, mosaic, out_trans,
                out_meta>>
varsChoro == <<csv, wfs, seriesGetLabelOnly, cpc, data, geodata,
               employed_series, colorscale, maps, m, html>>
vars == <<varsRaster, varsChoro>>

Range(s) == {s[i] : i \in DOMAIN s}
Last(s) == s[Len(s)]
Max(S) == CHOOSE x \in S : \A y \in S : y <= x
Min(S) == CHOOSE x \in S : \A y \in S : x <= y

(***************************************************************************)
(*                         RASTER MOSAIC NOTEBOOK                          *)
(***************************************************************************)

\* Bounds of the model.
MaxRuns == 2
MaxShift == 1

\* Ground resolution of the DEM tiles ("2X2m resolution DEM files").
Res == 2
\* Pixels per side of a fixture tile.
TilePx == 2
\* show(src_files_to_mosaic[0..3]): the plot cell indexes four datasets.
PlottedTiles == 4

\* ---- path setup cell ----
dirpath == <<"L","5","_","d","a","t","a">>
OutName == <<"H","e","l","s","i","n","k","i","_","D","E","M","2","x","2","m",
             "_","M","o","s","a","i","c",".","t","i","f">>
\* A pattern that selects every .tif file of the directory.
search_criteria_any_tif == <<"*",".","t","i","f">>
search_criteria == <<"L","*",".","t","i","f">>
\* os.path.join(a, b) for a relative b.
PathJoin(a, b) == a \o <<"/">> \o b
out_fp == PathJoin(dirpath, OutName)
q == PathJoin(dirpath, search_criteria)

\* os.path.split: the part before the last separator, and the part after it.
RECURSIVE LastSepFrom(_, _)
LastSepFrom(p, i) ==
    IF i = 0 THEN 0 ELSE IF p[i] = "/" THEN i ELSE LastSepFrom(p, i - 1)
LastSep(p) == LastSepFrom(p, Len(p))
DirName(p) == SubSeq(p, 1, LastSep(p) - 1)
BaseName(p) == SubSeq(p, LastSep(p) + 1, Len(p))

\* fnmatch.fnmatchcase: "*" matches any run of characters, "?" any one.
RECURSIVE FnMatch(_, _)
FnMatch(s, pat) ==
    IF pat = <<>> THEN s = <<>>
    ELSE IF Head(pat) = "*"
         THEN FnMatch(s, Tail(pat)) \/ (s # <<>> /\ FnMatch(Tail(s), pat))
         ELSE /\ s # <<>>
              /\ (Head(pat) = "?" \/ Head(pat) = Head(s))
              /\ FnMatch(Tail(s), Tail(pat))

\* glob.glob(pattern): the files of the pattern's directory whose name matches
\* its last component; a directory that does not exist has no files and
\* raises nothing.
Glob(pattern, d) ==
    LET sep == LastSep(pattern)
        dir == SubSeq(pattern, 1, sep - 1)
        namePattern == SubSeq(pattern, sep + 1, Len(pattern))
    IN  {p \in DOMAIN d : /\ DirName(p) = dir
                          /\ FnMatch(BaseName(p), namePattern)}

\* ---- the files the directory may hold: DEM tiles, and an older mosaic ----
TileNames == { <<"L","1",".","t","i","f">>, <<"L","2",".","t","i","f">>,
               <<"L","3",".","t","i","f">>, <<"L","4",".","t","i","f">>,
               <<"L","5",".","t","i","f">> }
ProjUTM35 == "+proj=utm +zone=35 +ellps=GRS80 +units=m +no_defs "
CRSs == {ProjUTM35, "EPSG:4326"}

\* West and north edge of a fixture tile: a 3 x 2 sheet of adjacent tiles, two
\* of them off the sheet's grid by sh.
TileWest(name, sh) ==
    CASE name[2] = "1" -> 0
      [] name[2] = "2" -> TilePx * Res
      [] name[2] = "3" -> 2 * TilePx * Res + sh
      [] name[2] = "4" -> 0
      [] name[2] = "5" -> TilePx * Res
      [] OTHER -> 10 * TilePx * Res
TileNorth(name, sh) ==
    CASE name[2] \in {"1", "2", "3"} -> 2 * TilePx * Res
      [] name[2] = "4" -> TilePx * Res
      [] name[2] = "5" -> TilePx * Res - sh
      [] OTHER -> 10 * TilePx * Res

\* A GeoTIFF on disk: its metadata (the fields of rasterio's dataset.meta)
\* and its pixels, kept as the set of tiles the pixels come from.
TileFile(name, crs, sh) ==
    [meta |-> [driver |-> "GTiff",
               dtype |-> "float32",
               nodata |-> IF name[2] = "1" THEN 0 - 9999 ELSE 0,
               width |-> TilePx,
               height |-> TilePx,
               count |-> 1,
               crs |-> crs,
               transform |-> [a |-> Res, c |-> TileWest(name, sh),
                              e |-> 0 - Res, f |-> TileNorth(name, sh)]],
     data |-> {name}]

\* dataset.bounds, from the transform and the shape.
Left(meta) == meta.transform.c
Top(meta) == meta.transform.f
Right(meta) == meta.transform.c + meta.transform.a * meta.width
Bottom(meta) == meta.transform.f + meta.transform.e * meta.height

\* The choropleth notebook is not run.
ChoroIdle ==
    /\ csv = <<>>
    /\ wfs = <<>>
    /\ seriesGetLabelOnly = FALSE
    /\ cpc = "idle"
    /\ data = <<>>
    /\ geodata = <<>>
    /\ employed_series = <<>>
    /\ colorscale = <<>>
    /\ maps = <<>>
    /\ m = 0
    /\ html = <<>>

InitRaster ==
    /\ \/ /\ dirs = {dirpath}
          /\ \E present \in SUBSET (TileNames \cup {OutName}),
                crs \in CRSs, sh \in 0..MaxShift :
                disk = [p \in {PathJoin(dirpath, n) : n \in present}
                          |-> TileFile(BaseName(p), crs, sh)]
       \/ /\ dirs = {}
          /\ disk = [p \in {} |-> TileFile(p, ProjUTM35, 0)]
    /\ disk0 = disk
    /\ mergeRounding \in {"ceil", "round"}
    /\ pc = "setup"
    /\ run = 1
    /\ failed = <<>>
    /\ executed = <<>>
    /\ dem_fps = <<>>
    /\ handles = <<>>
    /\ src_files_to_mosaic = <<>>
    /\ src = 0
    /\ mosaic = <<>>
    /\ out_trans = <<>>
    /\ out_meta = <<>>
    /\ ChoroIdle

\* An uncaught exception in a cell: the run stops there.
Abort(cell) ==
    /\ pc' = "aborted"
    /\ failed' = <<cell>>

\* Lines 35-41: the paths are fixed literals; nothing is read or written.
PathSetupCell ==
    /\ pc = "setup"
    /\ pc' = "discover"
    /\ executed' = Append(executed, "setup")
    /\ UNCHANGED <<disk, disk0, dirs, mergeRounding, run, failed, dem_fps,
                   handles, src_files_to_mosaic, src, mosaic, out_trans,
                   out_meta>>
    /\ UNCHANGED varsChoro

\* The orders in which the file system may list a set of paths.
Orders(S) ==
    {s \in [1..Cardinality(S) -> S] : \A i, j \in DOMAIN s : s[i] = s[j] => i = j}

\* A discovery that lists the directory itself (os.listdir) raises when the
\* directory is missing.
DiscoveryCellListdir ==
    /\ pc = "discover"
    /\ executed' = Append(executed, "discover")
    /\ IF DirName(q) \notin dirs
       THEN Abort("discover") /\ UNCHANGED dem_fps
       ELSE /\ dem_fps' \in Orders(Glob(q, disk))
            /\ pc' = "open"
            /\ UNCHANGED failed
    /\ UNCHANGED <<disk, disk0, dirs, mergeRounding, run, handles,
                   src_files_to_mosaic, src, mosaic, out_trans, out_meta>>
    /\ UNCHANGED varsChoro

\* Line 60: dem_fps = glob.glob(q), in the order the file system gives.
DiscoveryCell ==
    /\ pc = "discover"
    /\ dem_fps' \in Orders(Glob(q, disk))
    /\ pc' = "open"
    /\ executed' = Append(executed, "discover")
    /\ UNCHANGED <<disk, disk0, dirs, mergeRounding, run, failed, handles,
                   src_files_to_mosaic, src, mosaic, out_trans, out_meta>>
    /\ UNCHANGED varsChoro

\* rasterio.open(fp): a dataset object in read mode, open.
OpenRead(fp) == [name |-> fp, mode |-> "r", closed |-> FALSE]

\* Lines 82-87: open every discovered file and append it to the list; src is
\* left bound to the last one, and stays unbound when the list is empty.
OpenLoopCell ==
    /\ pc = "open"
    /\ handles' = handles \o [i \in 1..Len(dem_fps) |-> OpenRead(dem_fps[i])]
    /\ src_files_to_mosaic' = [i \in 1..Len(dem_fps) |-> Len(handles) + i]
    /\ src' = IF dem_fps = <<>> THEN src ELSE Len(handles) + Len(dem_fps)
    /\ pc' = "plot"
    /\ executed' = Append(executed, "open")
    /\ UNCHANGED <<disk, disk0, dirs, mergeRounding, run, failed, dem_fps,
                   mosaic, out_trans, out_meta>>
    /\ UNCHANGED varsChoro

\* Lines 111-121: show(src_files_to_mosaic[0]) ... [3]; an index past the end
\* of the list raises IndexError.
PlotCell ==
    /\ pc = "plot"
    /\ executed' = Append(executed, "plot")
    /\ IF Len(src_files_to_mosaic) < PlottedTiles
       THEN Abort("plot")
       ELSE pc' = "merge" /\ UNCHANGED failed
    /\ UNCHANGED <<disk, disk0, dirs, mergeRounding, run, dem_fps, handles,
                   src_files_to_mosaic, src, mosaic, out_trans, out_meta>>
    /\ UNCHANGED varsChoro

\* The metadata of an opened dataset.
Meta(h) == disk[handles[h].name].meta

CeilDiv(n, d) == (n + d - 1) \div d
\* Python's round(n / d): to the nearest integer, a half to the even one.
RoundDiv(n, d) ==
    LET lo == n \div d
        r == n % d
    IN  IF 2 * r < d THEN lo
        ELSE IF 2 * r > d THEN lo + 1
        ELSE IF lo % 2 = 0 THEN lo ELSE lo + 1
\* The number of pixels rasterio.merge gives an extent: rasterio 1.0 and 1.1
\* take the ceiling, later releases round.
Pixels(extent, res, rounding) ==
    IF rounding = "ceil" THEN CeilDiv(extent, res) ELSE RoundDiv(extent, res)

\* The union of the datasets' bounds.
UnionWest(ds) == Min({Left(Meta(ds[i])) : i \in DOMAIN ds})
UnionEast(ds) == Max({Right(Meta(ds[i])) : i \in DOMAIN ds})
UnionSouth(ds) == Min({Bottom(Meta(ds[i])) : i \in DOMAIN ds})
UnionNorth(ds) == Max({Top(Meta(ds[i])) : i \in DOMAIN ds})

\* A merge that takes the first dataset's eastern edge for the mosaic's.
MergeEastFirstOnly(ds) == Right(Meta(ds[1]))
\* The eastern edge merge() sizes the mosaic for.
MergeEast(ds) == UnionEast(ds)

\* rasterio.merge.merge(datasets) with its defaults: the output covers the
\* union of the bounds, at the first dataset's resolution and band count,
\* anchored at the union's north-west corner.
MergeArray(ds, rounding) ==
    LET first == Meta(ds[1])
    IN  [shape |-> << first.count,
                      Pixels(UnionNorth(ds) - UnionSouth(ds),
                             0 - first.transform.e, rounding),
                      Pixels(MergeEast(ds) - UnionWest(ds),
                             first.transform.a, rounding) >>,
         data |-> UNION {disk[handles[ds[i]].name].data : i \in DOMAIN ds}]
MergeTransform(ds) ==
    LET first == Meta(ds[1])
    IN  [a |-> first.transform.a, c |-> UnionWest(ds),
         e |-> first.transform.e, f |-> UnionNorth(ds)]

\* Line 141: mosaic, out_trans = merge(src_files_to_mosaic); merge raises
\* on an empty list and on a closed dataset.
MergeCell ==
    /\ pc = "merge"
    /\ executed' = Append(executed, "merge")
    /\ IF \/ src_files_to_mosaic = <<>>
          \/ \E i \in DOMAIN src_files_to_mosaic :
                handles[src_files_to_mosaic[i]].closed
       THEN Abort("merge") /\ UNCHANGED <<mosaic, out_trans>>
       ELSE /\ mosaic' = <<MergeArray(src_files_to_mosaic, mergeRounding)>>
            /\ out_trans' = <<MergeTransform(src_files_to_mosaic)>>
            /\ pc' = "meta"
            /\ UNCHANGED failed
    /\ UNCHANGED <<disk, disk0, dirs, mergeRounding, run, dem_fps, handles,
                   src_files_to_mosaic, src, out_meta>>
    /\ UNCHANGED varsChoro

\* Lines 166-172: the five fields out_meta.update overrides.
UpdatedMeta(template, array, trans) ==
    [template EXCEPT !.driver = "GTiff",
                     !.height = array.shape[2],
                     !.width = array.shape[3],
                     !.transform = trans,
                     !.crs = ProjUTM35]

\* Lines 163-172: out_meta = src.meta.copy(), then the update; src, mosaic
\* or out_trans unbound raises NameError.
MetaCell ==
    /\ pc = "meta"
    /\ executed' = Append(executed, "meta")
    /\ IF src = 0 \/ mosaic = <<>> \/ out_trans = <<>>
       THEN Abort("meta") /\ UNCHANGED out_meta
       ELSE /\ out_meta' = <<UpdatedMeta(Meta(src), mosaic[1], out_trans[1])>>
            /\ pc' = "write"
            /\ UNCHANGED failed
    /\ UNCHANGED <<disk, disk0, dirs, mergeRounding, run, dem_fps, handles,
                   src_files_to_mosaic, src, mosaic, out_trans>>
    /\ UNCHANGED varsChoro

\* Lines 189-190: with rasterio.open(out_fp, "w", **out_meta) as dest:
\* dest.write(mosaic).  The file is created or replaced and dest is closed
\* when the block ends.
WriteCell ==
    /\ pc = "write"
    /\ executed' = Append(executed, "write")
    /\ IF out_meta = <<>> \/ mosaic = <<>> \/ DirName(out_fp) \notin dirs
       THEN Abort("write") /\ UNCHANGED <<disk, handles>>
       ELSE /\ disk' = [p \in DOMAIN disk \cup {out_fp} |->
                          IF p = out_fp
                          THEN [meta |-> out_meta[1], data |-> mosaic[1].data]
                          ELSE disk[p]]
            /\ handles' = Append(handles,
                                 [name |-> out_fp, mode |-> "w", closed |-> TRUE])
            /\ pc' = "done"
            /\ UNCHANGED failed
    /\ UNCHANGED <<disk0, dirs, mergeRounding, run, dem_fps,
                   src_files_to_mosaic, src, mosaic, out_trans, out_meta>>
    /\ UNCHANGED varsChoro

\* The notebook is run again from the top in a fresh kernel: every name is
\* unbound again, the files stay.
RunAgain ==
    /\ pc \in {"done", "aborted"}
    /\ run < MaxRuns
    /\ run' = run + 1
    /\ pc' = "setup"
    /\ failed' = <<>>
    /\ executed' = <<>>
    /\ dem_fps' = <<>>
    /\ handles' = <<>>
    /\ src_files_to_mosaic' = <<>>
    /\ src' = 0
    /\ mosaic' = <<>>
    /\ out_trans' = <<>>
    /\ out_meta' = <<>>
    /\ UNCHANGED <<disk, disk0, dirs, mergeRounding>>
    /\ UNCHANGED varsChoro

NextRaster ==
    \/ PathSetupCell
    \/ DiscoveryCell
    \/ OpenLoopCell
    \/ PlotCell
    \/ MergeCell
    \/ MetaCell
    \/ WriteCell
    \/ RunAgain

SpecRaster == InitRaster /\ [][NextRaster]_vars

(***************************************************************************)
(*                    PROPERTIES OF THE RASTER NOTEBOOK                    *)
(***************************************************************************)

Discovered == pc \notin {"setup", "discover"}
Merged == mosaic # <<>>
Tiles == src_files_to_mosaic

\* The extent the mosaic array covers under its transform.
MosaicWest == out_trans[1].c
MosaicNorth == out_trans[1].f
MosaicEast == out_trans[1].c + out_trans[1].a * mosaic[1].shape[3]
MosaicSouth == out_trans[1].f + out_trans[1].e * mosaic[1].shape[2]

\* C4: after the metadata update the output metadata is the template's
\* (src's) except for driver, height, width, transform and crs, which hold
\* the output format, the mosaic's rows and columns, the transform merge
\* returned and the CRS of the merged tiles; the write step then writes the
\* whole mosaic under exactly that metadata.
C4_MetadataHoldsMosaicValues ==
    pc \in {"write", "done"} =>
        /\ out_meta[1].dtype = Meta(src).dtype
        /\ out_meta[1].nodata = Meta(src).nodata
        /\ out_meta[1].count = Meta(src).count
        /\ out_meta[1].driver = "GTiff"
        /\ out_meta[1].height = mosaic[1].shape[2]
        /\ out_meta[1].width = mosaic[1].shape[3]
        /\ out_meta[1].transform = out_trans[1]
        /\ \A i \in DOMAIN Tiles : out_meta[1].crs = Meta(Tiles[i]).crs
        /\ pc = "done" =>
              disk[out_fp] = [meta |-> out_meta[1], data |-> mosaic[1].data]

\* C5: every input handle opened by the open loop is closed by the time the
\* pipeline has finished (the mosaic file is written).
C5_InputHandlesClosed ==
    pc = "done" => \A i \in DOMAIN Tiles : handles[Tiles[i]].closed

\* C6: when the pattern matches no file (the directory may be missing),
\* discovery raises nothing and yields an empty list, the open loop opens
\* nothing, the run stops at the first cell that fails and never reaches
\* the merge, metadata or write cell, and the files on disk, the output
\* mosaic included, stay as they were; in any run, once a cell has raised, no
\* later cell has run.
C6_EmptyDiscoveryAborts ==
    /\ failed # <<>> => pc = "aborted" /\ Last(executed) = failed[1]
    /\ Glob(q, disk) = {} =>
          /\ failed # <<"discover">>
          /\ Discovered => dem_fps = <<>>
          /\ pc \notin {"setup", "discover", "open"} =>
                (src_files_to_mosaic = <<>> /\ handles = <<>> /\ src = 0)
          /\ pc \notin {"merge", "meta", "write", "done"}
          /\ \A c \in Range(executed) : c \notin {"merge", "meta", "write"}
          /\ disk = disk0

\* C6 witness: the directory is missing and the run has stopped at the plot
\* cell, the first cell that fails.
C6_Witness ==
    /\ dirs = {}
    /\ Glob(q, disk) = {}
    /\ pc = "aborted"
    /\ failed = <<"plot">>
    /\ executed = <<"setup", "discover", "open", "plot">>

\* The tiles' edges lie on one pixel grid: west and north edges differ by
\* whole multiples of the resolution.
OnOneGrid ==
    \A i, j \in DOMAIN Tiles :
        /\ (Left(Meta(Tiles[i])) - Left(Meta(Tiles[j]))) % Meta(Tiles[1]).transform.a = 0
        /\ (Top(Meta(Tiles[i])) - Top(Meta(Tiles[j]))) % Meta(Tiles[1]).transform.a = 0

\* What C7 says of a merged mosaic: its extent is the union of the tiles'
\* extents, its resolution the tiles', and the recorded height and width
\* are the extent divided by the resolution.
MosaicCoversUnionExactly ==
    /\ MosaicWest = UnionWest(Tiles)
    /\ MosaicEast = UnionEast(Tiles)
    /\ MosaicNorth = UnionNorth(Tiles)
    /\ MosaicSouth = UnionSouth(Tiles)
    /\ \A i \in DOMAIN Tiles :
          /\ out_trans[1].a = Meta(Tiles[i]).transform.a
          /\ out_trans[1].e = Meta(Tiles[i]).transform.e
    /\ out_meta # <<>> =>
          /\ out_meta[1].width * out_trans[1].a
                = UnionEast(Tiles) - UnionWest(Tiles)
          /\ out_meta[1].height * (0 - out_trans[1].e)
                = UnionNorth(Tiles) - UnionSouth(Tiles)

\* C7 as stated: for every non-empty tile set of one CRS and resolution the
\* merged mosaic covers exactly the union of the tile extents at the tiles'
\* resolution, and the recorded height and width are extent / resolution.
C7_Original == Merged => MosaicCoversUnionExactly

\* C7 amended: the same, for tile sets whose edges lie on one pixel grid.
C7_MosaicCoversUnionOnGrid == (Merged /\ OnOneGrid) => MosaicCoversUnionExactly

\* C7 witness: five tiles on one grid are merged and the metadata updated.
C7_Witness ==
    /\ Merged
    /\ OnOneGrid
    /\ out_meta # <<>>
    /\ Len(Tiles) = 5

\* C9: in every run, the first or a later one, the output path is not among
\* the discovered files, the discovered files are those the pattern matched
\* before the first run, and a finished run leaves a mosaic of exactly them.
C9_RerunDiscoversSameTiles ==
    /\ ~ FnMatch(BaseName(out_fp), BaseName(q))
    /\ Discovered =>
          /\ out_fp \notin Range(dem_fps)
          /\ Range(dem_fps) = Glob(q, disk0)
    /\ pc = "done" =>
          disk[out_fp].data = {BaseName(p) : p \in Glob(q, disk0)}

\* C9 witness: a second run has finished after the first run wrote a mosaic
\* that was not on disk before.
C9_Witness ==
    /\ run = 2
    /\ pc = "done"
    /\ out_fp \notin DOMAIN disk0
    /\ out_fp \in DOMAIN disk

(***************************************************************************)
(*                           CHOROPLETH NOTEBOOK                           *)
(***************************************************************************)

\* Bounds of the model: rows of the csv file, features of the service.
MaxAttrRows == 2
MaxGeoRows == 2

\* x[2:] drops two characters.
PrefixLen == 2
\* to_step(n = 6).
NClasses == 6

\* Region codes of the csv file (with their two-letter prefix) and of the
\* feature service, and the employment rates a row may hold.
CsvKeys == { <<"S","K","0","1">>, <<"X","X","0","1">>, <<"S","K","0","2">> }
GeoKeys == { <<"0","1">>, <<"0","2">>, <<"0","3">> }
Rates == {60, 70}

\* The name of a region (column nimi).
NimiOf(key) == IF key = <<"0","1">> THEN "Helsinki"
               ELSE IF key = <<"0","2">> THEN "Turku" ELSE "Tampere"

SeqsUpTo(S, n) == UNION {[1..k -> S] : k \in 0..n}

\* The raster notebook is not run.
RasterIdle ==
    /\ disk = [p \in {} |-> TileFile(p, ProjUTM35, 0)]
    /\ disk0 = disk
    /\ dirs = {}
    /\ mergeRounding = "ceil"
    /\ pc = "idle"
    /\ run = 1
    /\ failed = <<>>
    /\ executed = <<>>
    /\ dem_fps = <<>>
    /\ handles = <<>>
    /\ src_files_to_mosaic = <<>>
    /\ src = 0
    /\ mosaic = <<>>
    /\ out_trans = <<>>
    /\ out_meta = <<>>

InitChoro ==
    /\ seriesGetLabelOnly \in BOOLEAN
    /\ csv \in SeqsUpTo([seutukunta : CsvKeys, tyollisyys : Rates], MaxAttrRows)
    /\ \E keys \in SeqsUpTo(GeoKeys, MaxGeoRows) :
          wfs = [i \in DOMAIN keys |->
                   [seutukunta |-> keys[i], nimi |-> NimiOf(keys[i]),
                    geometry |-> i]]
    /\ cpc = "read"
    /\ data = <<>>
    /\ geodata = <<>>
    /\ employed_series = <<>>
    /\ colorscale = <<>>
    /\ maps = <<>>
    /\ m = 0
    /\ html = <<>>
    /\ RasterIdle

\* Lines 294 and 328: data = pd.read_csv(...), geodata = gpd.read_file(url).
ReadCells ==
    /\ cpc = "read"
    /\ data' = csv
    /\ geodata' = wfs
    /\ cpc' = "strip"
    /\ UNCHANGED <<csv, wfs, seriesGetLabelOnly, employed_series, colorscale,
                   maps, m, html>>
    /\ UNCHANGED varsRaster

\* A slice that drops one character only.
StripOneChar(x) == IF Len(x) <= 1 THEN <<>> ELSE SubSeq(x, 2, Len(x))
\* lambda x: x[2:]
StripPrefix(x) ==
    IF Len(x) <= PrefixLen THEN <<>> ELSE SubSeq(x, PrefixLen + 1, Len(x))

\* Line 372: data["seutukunta"] = data["seutukunta"].apply(lambda x: x[2:])
NormaliseKeysCell ==
    /\ cpc = "strip"
    /\ data' = [i \in DOMAIN data |->
                  [data[i] EXCEPT !.seutukunta = StripPrefix(@)]]
    /\ cpc' = "join"
    /\ UNCHANGED <<csv, wfs, seriesGetLabelOnly, geodata, employed_series,
                   colorscale, maps, m, html>>
    /\ UNCHANGED varsRaster

\* A row of the joined table: the left row's columns and the right row's
\* other columns.
JoinedRow(l, r) ==
    [seutukunta |-> l.seutukunta, nimi |-> l.nimi, geometry |-> l.geometry,
     tyollisyys |-> r.tyollisyys]

RECURSIVE RowMatches(_, _)
RowMatches(l, right) ==
    IF right = <<>> THEN <<>>
    ELSE (IF Head(right).seutukunta = l.seutukunta
          THEN <<JoinedRow(l, Head(right))>> ELSE <<>>)
         \o RowMatches(l, Tail(right))

\* merge(how = "left"): a left row without a match is kept, its right
\* columns missing (-1 stands for NaN).
RECURSIVE MergeLeft(_, _)
MergeLeft(left, right) ==
    IF left = <<>> THEN <<>>
    ELSE (IF RowMatches(Head(left), right) = <<>>
          THEN <<JoinedRow(Head(left), [tyollisyys |-> 0 - 1])>>
          ELSE RowMatches(Head(left), right))
         \o MergeLeft(Tail(left), right)

\* left.merge(right, on = "seutukunta"): pandas' default inner join, one row
\* per pair of rows with equal keys, in the order of the left rows and,
\* for one left row, of the right rows; the result is indexed 0, 1, 2, ...
RECURSIVE Merge(_, _)
Merge(left, right) ==
    IF left = <<>> THEN <<>>
    ELSE RowMatches(Head(left), right) \o Merge(Tail(left), right)

\* Line 402: geodata = geodata.merge(data, on = "seutukunta")
JoinCell ==
    /\ cpc = "join"
    /\ geodata' = Merge(geodata, data)
    /\ cpc' = "plot"
    /\ UNCHANGED <<csv, wfs, seriesGetLabelOnly, data, employed_series,
                   colorscale, maps, m, html>>
    /\ UNCHANGED varsRaster

\* Lines 444 and 461-464: the two static plots draw a figure and change no
\* name of the notebook.
StaticPlotCells ==
    /\ cpc = "plot"
    /\ cpc' = "geoid"
    /\ UNCHANGED <<csv, wfs, seriesGetLabelOnly, data, geodata,
                   employed_series, colorscale, maps, m, html>>
    /\ UNCHANGED varsRaster

\* str(n) and int(s) for a non-negative integer in decimal.
Digits == <<"0","1","2","3","4","5","6","7","8","9">>
RECURSIVE IntToStr(_)
IntToStr(n) ==
    IF n < 10 THEN <<Digits[n + 1]>>
    ELSE IntToStr(n \div 10) \o <<Digits[(n % 10) + 1]>>
DigitValue(c) == CHOOSE d \in 0..9 : Digits[d + 1] = c
RECURSIVE StrToInt(_)
StrToInt(s) ==
    IF Len(s) = 1 THEN DigitValue(s[1])
    ELSE 10 * StrToInt(SubSeq(s, 1, Len(s) - 1)) + DigitValue(s[Len(s)])

\* The index label of row k of a frame with the default index (rows are
\* numbered from 0).
IndexLabel(k) == k - 1

\* Line 483: geodata['geoid'] = geodata.index.astype(str)
GeoIdCell ==
    /\ cpc = "geoid"
    /\ geodata' = [k \in DOMAIN geodata |->
                     [seutukunta |-> geodata[k].seutukunta,
                      nimi |-> geodata[k].nimi,
                      geometry |-> geodata[k].geometry,
                      tyollisyys |-> geodata[k].tyollisyys,
                      geoid |-> IntToStr(IndexLabel(k))]]
    /\ cpc' = "map1"
    /\ UNCHANGED <<csv, wfs, seriesGetLabelOnly, data, employed_series,
                   colorscale, maps, m, html>>
    /\ UNCHANGED varsRaster

\* GeoDataFrame.to_json(): one feature per row, its id the row's index label
\* as text.
Features(gdf) ==
    [k \in DOMAIN gdf |-> [id |-> IntToStr(IndexLabel(k)), properties |-> gdf[k]]]

\* ---- colours ----
HexDigits == {"0","1","2","3","4","5","6","7","8","9",
              "a","b","c","d","e","f","A","B","C","D","E","F"}
NamedColors == { <<"b","l","a","c","k">>, <<"w","h","i","t","e">>,
                 <<"t","r","a","n","s","p","a","r","e","n","t">> }
\* A colour a browser accepts: a colour name, or "#" and 3, 4, 6 or 8
\* hexadecimal digits.
IsValidColor(c) ==
    \/ c \in NamedColors
    \/ /\ Len(c) \in {4, 5, 7, 9}
       /\ c[1] = "#"
       /\ \A i \in 2..Len(c) : c[i] \in HexDigits

Transparent == <<"t","r","a","n","s","p","a","r","e","n","t">>
HashBlack == <<"#","b","l","a","c","k">>
LeafletBlue == <<"#","3","3","8","8","f","f">>
\* The six shades of the stepped RdYlBu_05 scale, as "#rrggbbaa" (branca
\* interpolates them from the data; six fixed shades stand for them).
StepColors ==
    << <<"#","d","7","1","9","1","c","f","f">>,
       <<"#","f","0","7","c","4","a","f","f">>,
       <<"#","f","e","c","9","8","0","f","f">>,
       <<"#","c","7","e","5","d","b","f","f">>,
       <<"#","7","4","b","6","d","6","f","f">>,
       <<"#","2","c","7","b","b","6","f","f">> >>

\* sorted(values)
RECURSIVE Insert(_, _)
Insert(x, s) ==
    IF s = <<>> THEN <<x>>
    ELSE IF x <= Head(s) THEN <<x>> \o s ELSE <<Head(s)>> \o Insert(x, Tail(s))
RECURSIVE Sorted(_)
Sorted(s) == IF s = <<>> THEN <<>> ELSE Insert(Head(s), Sorted(Tail(s)))

\* LinearColormap.to_step(data = values, n = n, method = 'quantiles'): the
\* n + 1 class bounds are the quantiles i/n of the sorted values, linearly
\* interpolated between neighbours.  Bounds are kept multiplied by n, which
\* keeps them whole numbers.
ToStep(values, n) ==
    LET sv == Sorted(values)
        p == Len(values) - 1
        Bound(i) ==
            LET lo == (i * p) \div n
                r == (i * p) % n
                hi == IF lo + 1 < p THEN lo + 1 ELSE p
            IN  sv[lo + 1] * (n - r) + sv[hi + 1] * r
    IN  [index |-> [i \in 1..(n + 1) |-> Bound(i - 1)],
         colors |-> SubSeq(StepColors, 1, n),
         n |-> n,
         caption |-> ""]

\* StepColormap.__call__(x): the first colour at or below the lowest bound,
\* the last at or above the highest, else the colour of the class x is in.
ColorOf(scale, x) ==
    LET nx == scale.n * x
        below == Cardinality({k \in DOMAIN scale.index : scale.index[k] < nx})
    IN  IF nx <= scale.index[1] THEN scale.colors[1]
        ELSE IF nx >= scale.index[Len(scale.index)]
             THEN scale.colors[Len(scale.colors)]
             ELSE scale.colors[below]

\* Series.get(key, None) with an integer key on a series whose labels are
\* text: the key is no label; pandas before 3.0 then takes it as a position
\* (None when past the end), pandas 3.0 and later looks up labels only and
\* returns None.
SeriesGet(series, key, labelOnly) ==
    IF ~ labelOnly /\ key + 1 \in DOMAIN series
    THEN <<series[key + 1].value>>
    ELSE <<>>

\* The style Leaflet draws a path with: its defaults, overridden by the
\* dictionary the style function returns.
LabelsStyle(feature) ==
    [color |-> Transparent, fillColor |-> Transparent,
     fillOpacityPct |-> 20, weight |-> 0]

\* The fill my_color_function gives a feature with no value.
MissingFill == HashBlack

\* Lines 563-571: my_color_function(feature).
my_color_function(feature, series, scale, labelOnly) ==
    LET employed == SeriesGet(series, StrToInt(feature.id), labelOnly)
    IN  [color |-> LeafletBlue,
         fillColor |-> IF employed = <<>> THEN MissingFill
                       ELSE ColorOf(scale, employed[1]),
         fillOpacityPct |-> 50,
         weight |-> 0]

Column(frame, col) == [i \in DOMAIN frame |-> frame[i][col]]

\* A layer or control added to a map.
Child(kind, name, tooltip, styles) ==
    [kind |-> kind, name |-> name, tooltip |-> tooltip, styles |-> styles]

\* Lines 500-509: m = folium.Map(...); folium.Choropleth(...).add_to(m).
\* The Choropleth colours by its own scale; its styles are not kept.
FirstMapCell ==
    /\ cpc = "map1"
    /\ maps' = Append(maps, <<Child("Choropleth", "choropleth", <<>>, <<>>)>>)
    /\ m' = Len(maps) + 1
    /\ cpc' = "labels"
    /\ UNCHANGED <<csv, wfs, seriesGetLabelOnly, data, geodata,
                   employed_series, colorscale, html>>
    /\ UNCHANGED varsRaster

\* Lines 529-536: folium.features.GeoJson(geodata, name='Labels', ...)
\* .add_to(m), on the instance m is bound to.
TooltipCell ==
    /\ cpc = "labels"
    /\ IF m = 0
       THEN cpc' = "aborted" /\ UNCHANGED maps
       ELSE /\ maps' = [maps EXCEPT ![m] =
                          Append(@, Child("GeoJson", "Labels", <<"tyollisyys">>,
                                          [k \in DOMAIN geodata |->
                                             LabelsStyle(Features(geodata)[k])]))]
            /\ cpc' = "style"
    /\ UNCHANGED <<csv, wfs, seriesGetLabelOnly, data, geodata,
                   employed_series, colorscale, m, html>>
    /\ UNCHANGED varsRaster

\* Lines 557-571: employed_series = data.set_index('seutukunta')['tyollisyys'],
\* colorscale = ...to_step(data = geodata['tyollisyys'], n = 6, method =
\* 'quantiles') and the definition of my_color_function.  to_step takes
\* max(data) first, which raises on an empty column.
StyleCell ==
    /\ cpc = "style"
    /\ employed_series' =
          <<[i \in DOMAIN data |->
               [label |-> data[i].seutukunta, value |-> data[i].tyollisyys]]>>
    /\ IF geodata = <<>>
       THEN cpc' = "aborted" /\ UNCHANGED colorscale
       ELSE /\ colorscale' = <<ToStep(Column(geodata, "tyollisyys"), NClasses)>>
            /\ cpc' = "map2"
    /\ UNCHANGED <<csv, wfs, seriesGetLabelOnly, data, geodata, maps, m, html>>
    /\ UNCHANGED varsRaster

\* The three children the second map cell adds, in the order it adds them.
SecondMapChildren ==
    << Child("GeoJson", "Employment rate in Finland (2013)",
             <<"nimi", "tyollisyys">>,
             [k \in DOMAIN geodata |->
                my_color_function(Features(geodata)[k], employed_series[1],
                                  colorscale[1], seriesGetLabelOnly)]),
       Child("StepColormap", "Employment rate (%)", <<>>, <<>>),
       Child("LayerControl", "", <<>>, <<>>) >>

\* A cell that adds its layers to the instance m is already bound to.
SecondMapCellSameInstance ==
    /\ cpc = "map2"
    /\ maps' = [maps EXCEPT ![m] = @ \o SecondMapChildren]
    /\ colorscale' = <<[colorscale[1] EXCEPT !.caption = "Employment rate (%)"]>>
    /\ cpc' = "save"
    /\ UNCHANGED <<csv, wfs, seriesGetLabelOnly, data, geodata,
                   employed_series, m, html>>
    /\ UNCHANGED varsRaster

\* Lines 593-612: m = folium.Map(...) binds m to a new instance; the styled
\* GeoJson layer, the colour scale (with its caption set) and the layer
\* control are added to it.
SecondMapCell ==
    /\ cpc = "map2"
    /\ maps' = Append(maps, SecondMapChildren)
    /\ m' = Len(maps) + 1
    /\ colorscale' = <<[colorscale[1] EXCEPT !.caption = "Employment rate (%)"]>>
    /\ cpc' = "save"
    /\ UNCHANGED <<csv, wfs, seriesGetLabelOnly, data, geodata,
                   employed_series, html>>
    /\ UNCHANGED varsRaster

\* Lines 624-625: m.save(outfp) writes the instance m is bound to.
SaveCell ==
    /\ cpc = "save"
    /\ html' = <<maps[m]>>
    /\ cpc' = "done"
    /\ UNCHANGED <<csv, wfs, seriesGetLabelOnly, data, geodata,
                   employed_series, colorscale, maps, m>>
    /\ UNCHANGED varsRaster

NextChoro ==
    \/ ReadCells
    \/ NormaliseKeysCell
    \/ JoinCell
    \/ StaticPlotCells
    \/ GeoIdCell
    \/ FirstMapCell
    \/ TooltipCell
    \/ StyleCell
    \/ SecondMapCell
    \/ SaveCell

SpecChoro == InitChoro /\ [][NextChoro]_vars

(***************************************************************************)
(*                  PROPERTIES OF THE CHOROPLETH NOTEBOOK                  *)
(***************************************************************************)

Joined == cpc \notin {"read", "strip", "join"}
Styled == cpc \in {"save", "done"}

\* A csv region code without its first two characters.
DropTwo(k) == IF Len(k) <= 2 THEN <<>> ELSE SubSeq(k, 3, Len(k))
AttrKeys == {DropTwo(csv[a].seutukunta) : a \in DOMAIN csv}
GeomKeys == {wfs[g].seutukunta : g \in DOMAIN wfs}
\* The csv rows whose stripped code is k.
AttrRowsOf(k) == {a \in DOMAIN csv : DropTwo(csv[a].seutukunta) = k}

\* C1: after the join, a geometry whose key equals no stripped attribute key
\* is in no joined row, the key of an attribute row that equals no geometry
\* key is in no joined row, and every joined row's key is on both sides.
C1_InnerJoin ==
    Joined =>
        /\ \A g \in DOMAIN wfs :
              wfs[g].seutukunta \notin AttrKeys =>
                  \A j \in DOMAIN geodata : geodata[j].geometry # wfs[g].geometry
        /\ \A a \in DOMAIN csv :
              DropTwo(csv[a].seutukunta) \notin GeomKeys =>
                  \A j \in DOMAIN geodata :
                      geodata[j].seutukunta # DropTwo(csv[a].seutukunta)
        /\ \A j \in DOMAIN geodata :
              geodata[j].seutukunta \in (AttrKeys \cap GeomKeys)

\* C1 witness: a join that kept a row and dropped both a geometry and an
\* attribute row.
C1_Witness ==
    /\ Joined
    /\ geodata # <<>>
    /\ \E g \in DOMAIN wfs : wfs[g].seutukunta \notin AttrKeys
    /\ \E a \in DOMAIN csv : DropTwo(csv[a].seutukunta) \notin GeomKeys

\* C2 as stated: whenever every geometry key has a matching stripped
\* attribute key, the join returns as many rows as there are geometries.
C2_Original ==
    (Joined /\ GeomKeys \subseteq AttrKeys) => Len(geodata) = Len(wfs)

\* C2 amended: whenever every geometry key is the stripped key of exactly
\* one attribute row, the join returns as many rows as there are geometries.
C2_RowCountKept ==
    (Joined /\ \A g \in DOMAIN wfs :
                 Cardinality(AttrRowsOf(wfs[g].seutukunta)) = 1)
        => Len(geodata) = Len(wfs)

\* C2 witness: two geometries with different keys, each matched by exactly
\* one attribute row, have been joined.
C2_Witness ==
    /\ Joined
    /\ Len(wfs) >= 2
    /\ wfs[1].seutukunta # wfs[2].seutukunta
    /\ \A g \in DOMAIN wfs : Cardinality(AttrRowsOf(wfs[g].seutukunta)) = 1

\* The value my_color_function looks up for row k of the joined dataset.
LookedUp(k) ==
    SeriesGet(employed_series[1], StrToInt(Features(geodata)[k].id),
              seriesGetLabelOnly)
\* The style the saved map draws row k with.
DrawnStyle(k) == maps[m][1].styles[k]

\* C3: on the map drawn with my_color_function every feature has a valid
\* fill colour, also one whose looked-up value is missing, and a feature with
\* a value has the colour the quantile scale gives that value.
C3_ValidFillColours ==
    Styled =>
        \A k \in DOMAIN geodata :
            /\ IsValidColor(DrawnStyle(k).fillColor)
            /\ LookedUp(k) # <<>> =>
                  DrawnStyle(k).fillColor = ColorOf(colorscale[1], LookedUp(k)[1])

\* C8: for every feature of the joined dataset the value my_color_function
\* looks up is that feature's own employment rate.
C8_LooksUpOwnRate ==
    Styled => \A k \in DOMAIN geodata : LookedUp(k) = <<geodata[k].tyollisyys>>

\* C10: the saved map is the second instance alone: the styled GeoJson layer
\* with its tooltip, the colour scale legend and the layer control, in that
\* order, and neither the Choropleth layer nor the 'Labels' overlay, which
\* are on the first instance.
C10_SavedMapIsSecondInstance ==
    html # <<>> =>
        /\ m = 2
        /\ html[1] = maps[2]
        /\ [i \in DOMAIN html[1] |-> html[1][i].kind]
              = <<"GeoJson", "StepColormap", "LayerControl">>
        /\ html[1][1].name = "Employment rate in Finland (2013)"
        /\ html[1][1].tooltip = <<"nimi", "tyollisyys">>
        /\ Len(html[1][1].styles) = Len(geodata)
        /\ \A i \in DOMAIN html[1] :
              html[1][i].kind # "Choropleth" /\ html[1][i].name # "Labels"
        /\ [i \in DOMAIN maps[1] |-> maps[1][i].kind] = <<"Choropleth", "GeoJson">>
        /\ maps[1][2].name = "Labels"

\* C10 witness: the map has been saved.
C10_Witness == html # <<>> /\ cpc = "done"

=============================================================================
